---- MODULE Spec2Model ----
(***************************************************************************)
(* A model of gpx-interpolate.py: the track functions (distance, duplicate *)
(* removal, speed, interpolation) and the per-file flow of main.           *)
(*                                                                         *)
(* Numbers.  The program computes in IEEE doubles; the model computes on   *)
(* an integer grid.  Latitude, longitude, elevation and distance share one *)
(* grid unit (one unit of arc = one unit of length), timestamps are in     *)
(* ticks with EPS = 2 ticks, so that a positive delta below EPS exists.    *)
(* A quotient is rounded to the grid where the program rounds to a double. *)
(* NaN and infinity are kept as values of their own (see Num, NaN, Inf).   *)
(*                                                                         *)
(* Python values.  A channel of a track (gpx_data['ele'], ...) is a list   *)
(* or None: [some |-> TRUE, v |-> <<...>>] is the list, NoneCh is None.    *)
(* A call either returns (Ok) or raises (Raise).                           *)
(***************************************************************************)
EXTENDS Integers, Sequences, FiniteSets, TLC

VARIABLES
    gpx_data,         \* the track a function is called on / main's gpx_data
    call,             \* function-level runs: the call that was made
    ret,              \* function-level runs: what the call returned or raised
    x_query,          \* function-level runs: x of gpx_interpolate (line 85)
    args,             \* main: the parsed command line
    idx,              \* main: position of the for loop in args.gpx_files
    pc,               \* main: the next step of the loop body
    gpx_data_interp,  \* main: the track handed to gpx_write
    gpx_dist,         \* main: gpx_dist of line 279
    written,          \* main: the files gpx_write has written, in order
    exit_status       \* main: "running", "done" or how the process ended

mainVars == <<args, idx, pc, gpx_data_interp, gpx_dist, written, exit_status>>

vars == <<gpx_data, call, ret, x_query, mainVars>>

----------------------------------------------------------------------------
(* Bounds of the model *)

MaxLen == 3
MaxCoord == 1
MaxEle == 1
MaxT == 3
MaxNum == 4
MaxStep == 2
MaxFiles == 2

(* Program constants *)

EPS == 2

----------------------------------------------------------------------------
(* Python values *)

NoneCh == [some |-> FALSE, v |-> <<>>]

List(s) == [some |-> TRUE, v |-> s]

\* Python truth of a channel: None and [] are false.
Truthy(ch) == ch.some /\ Len(ch.v) > 0

Ok(v) == [err |-> "", val |-> v]

Raise(e) == [err |-> e, val |-> <<>>]

IsOk(r) == r.err = ""

Keys == <<"lat", "lon", "ele", "tstamp">>

Track(lat, lon, ele, tstamp, tz) ==
    [lat |-> lat, lon |-> lon, ele |-> ele, tstamp |-> tstamp, tzinfo |-> tz]

Abs(x) == IF x < 0 THEN -x ELSE x

Sign(x) == IF x < 0 THEN -1 ELSE IF x > 0 THEN 1 ELSE 0

\* floor of the square root
ISqrt(n) == CHOOSE r \in 0..n : r * r <= n /\ (r + 1) * (r + 1) > n

\* n / d rounded toward zero (d # 0)
Quot(n, d) == Sign(n) * Sign(d) * (Abs(n) \div Abs(d))

\* The sequence s itself, evaluated once (a function written [k \in 1..n |-> e]
\* is otherwise evaluated again at every s[k]).
AsList(s) == s \o <<>>

RECURSIVE SumSeq(_)
SumSeq(s) == IF s = <<>> THEN 0 ELSE s[1] + SumSeq(Tail(s))

\* np.cumsum
CumSum(s) == AsList([k \in 1..Len(s) |-> SumSeq(SubSeq(s, 1, k))])

----------------------------------------------------------------------------
(* gpx_calculate_distance *)

\* Lines 105-115: the great-circle distance of two positions.  On the grid
\* the haversine formula is taken in its small-angle form near the equator,
\* EARTH_RADIUS*c = sqrt(dlat^2 + dlon^2) with one grid unit of arc one unit
\* long: symmetric, never negative, and zero exactly for equal positions.
\* (In doubles the formula underflows to 0 for positions less than about
\* 1e-160 degrees apart; the grid has no two distinct positions that close.)
dist_latlon(lat1, lon1, lat2, lon2) ==
    LET delta_lat == lat2 - lat1
        delta_lon == lon2 - lon1
    IN  ISqrt(delta_lat * delta_lat + delta_lon * delta_lon)

\* Lines 117-121: one element of gpx_dist.
DistStepNoSquare(d_latlon, with_ele, ele1, ele2) ==
    IF with_ele THEN d_latlon + (ele2 - ele1) ELSE d_latlon

DistStep(d_latlon, with_ele, ele1, ele2) ==
    IF with_ele
    THEN LET dist_ele == ele2 - ele1
         IN  ISqrt(d_latlon * d_latlon + dist_ele * dist_ele)
    ELSE d_latlon

\* Lines 96-123.  len(None) raises TypeError.
gpx_calculate_distance(data, use_ele) ==
    IF ~data.lat.some THEN Raise("TypeError")
    ELSE LET n == Len(data.lat.v)
             with_ele == Truthy(data.ele) /\ use_ele
         IN  Ok(AsList([k \in 1..n |->
                   IF k = 1 THEN 0
                   ELSE DistStep(dist_latlon(data.lat.v[k-1], data.lon.v[k-1],
                                             data.lat.v[k], data.lon.v[k]),
                                 with_ele,
                                 IF with_ele THEN data.ele.v[k-1] ELSE 0,
                                 IF with_ele THEN data.ele.v[k] ELSE 0)]))

----------------------------------------------------------------------------
(* gpx_remove_duplicates *)

RECURSIVE NonZero(_, _)
\* np.nonzero(d)[0]: the 0-based indices of the non-zero elements, from k on.
NonZero(d, k) ==
    IF k > Len(d) THEN <<>>
    ELSE (IF d[k] # 0 THEN <<k - 1>> ELSE <<>>) \o NonZero(d, k + 1)

\* Line 148: np.concatenate(([0], np.nonzero(gpx_dist)[0]))
I_distNoFirst(d) == NonZero(d, 1)

I_dist(d) == <<0>> \o NonZero(d, 1)

\* Line 156: one channel of gpx_data_nodup.
Select(ch, i_dist) ==
    IF Truthy(ch)
    THEN List(AsList([j \in 1..Len(i_dist) |-> ch.v[i_dist[j] + 1]]))
    ELSE NoneCh

\* Lines 141-158.
gpx_remove_duplicates(data) ==
    LET d == gpx_calculate_distance(data, FALSE)
    IN  IF ~IsOk(d) THEN Raise(d.err)
        ELSE LET i_dist == I_dist(d.val)
             IN  IF Len(i_dist) = Len(d.val) THEN Ok(data)
                 ELSE Ok(Track(Select(data.lat, i_dist),
                               Select(data.lon, i_dist),
                               Select(data.ele, i_dist),
                               Select(data.tstamp, i_dist),
                               data.tzinfo))

----------------------------------------------------------------------------
(* gpx_calculate_speed *)

\* Floating-point values of the speed computation.
Num(x) == [kind |-> "num", x |-> x]

NaN == [kind |-> "nan", x |-> 0]

Inf(s) == [kind |-> "inf", x |-> s]

\* Line 133: np.diff(tstamp, prepend=tstamp[0])
Diff(t) == [k \in 1..Len(t) |-> IF k = 1 THEN t[1] - t[1] ELSE t[k] - t[k-1]]

\* Line 134: gpx_dtstamp[gpx_dtstamp < EPS] = np.nan
MaskZeroOnly(dt) == IF dt = 0 THEN NaN ELSE Num(dt)

Mask(dt) == IF dt < EPS THEN NaN ELSE Num(dt)

\* Line 136, the division: IEEE x/0 is an infinity (nan for 0/0), anything
\* over nan is nan.
FDiv(a, b) ==
    IF b.kind = "nan" THEN NaN
    ELSE IF b.x = 0 THEN (IF a = 0 THEN NaN ELSE Inf(Sign(a)))
    ELSE Num(Quot(a, b.x))

\* Line 136: np.nan_to_num(., nan=0.0) leaves numbers and keeps infinities
\* out of the result (they become the largest double).
NanToNum(f) ==
    IF f.kind = "nan" THEN Num(0)
    ELSE IF f.kind = "inf" THEN Num(f.x * (10 ^ 6))
    ELSE f

\* Lines 126-138.  None or [] as tstamp raises (TypeError, IndexError).
gpx_calculate_speed(data) ==
    LET d == gpx_calculate_distance(data, TRUE)
    IN  IF ~IsOk(d) THEN Raise(d.err)
        ELSE IF ~data.tstamp.some THEN Raise("TypeError")
        ELSE IF Len(data.tstamp.v) = 0 THEN Raise("IndexError")
        ELSE LET gpx_dtstamp == Diff(data.tstamp.v)
             IN  Ok([k \in 1..Len(d.val) |->
                       NanToNum(FDiv(d.val[k], Mask(gpx_dtstamp[k])))])

----------------------------------------------------------------------------
(* gpx_interpolate *)

\* An optional integer (num: Optional[int]).
NoneNum == [some |-> FALSE, v |-> 0]

SomeNum(k) == [some |-> TRUE, v |-> k]

\* int(np.ceil(a/b)) for a >= 0, b > 0
CeilDiv(a, b) == (a + b - 1) \div b

\* Line 83: the number of query values.
NumPoints(total, distance, num) ==
    IF num.some THEN num.v ELSE CeilDiv(total, distance)

\* Line 85: np.linspace(start, stop, num, endpoint=True).  The values are
\* kept exact, as numerators n[j] over the common denominator den:
\* step = (stop-start)/(num-1), y = arange(num)*step + start, y[-1] = stop.
LinspaceOneShort(start, stop, num) ==
    LET den == IF num > 2 THEN num - 2 ELSE 1
    IN  [n |-> [j \in 1..(num - 1) |-> start * den + (j - 1) * (stop - start)],
         den |-> den]

LinspaceNoEndpoint(start, stop, num) ==
    LET den == IF num > 1 THEN num ELSE 1
    IN  [n |-> [j \in 1..num |-> start * den + (j - 1) * (stop - start)],
         den |-> den]

Linspace(start, stop, num) ==
    LET den == IF num > 1 THEN num - 1 ELSE 1
    IN  [n |-> AsList([j \in 1..num |->
                  IF num > 1 /\ j = num THEN stop * den
                  ELSE start * den + (j - 1) * (stop - start)]),
         den |-> den]

\* scipy's PCHIP keeps the knot derivatives as doubles; the model keeps them
\* as multiples of 1/DerivScale.
DerivScale == 16

\* PchipInterpolator._edge_case(h0, h1, m0, m1) with m0 = a/h0, m1 = b/h1:
\* d = ((2*h0 + h1)*m0 - h0*m1)/(h0 + h1), set to 0 where its sign is not
\* m0's, and to 3*m0 where m0 and m1 differ in sign and |d| > 3*|m0|.
EdgeCase(h0, h1, a, b) ==
    LET n  == (2 * h0 + h1) * a * h1 - h0 * h0 * b
        dn == h0 * h1 * (h0 + h1)
    IN  IF Sign(n) # Sign(a) THEN 0
        ELSE IF Sign(a) # Sign(b) /\ Abs(n) * h0 > 3 * Abs(a) * dn
             THEN Quot(3 * DerivScale * a, h0)
        ELSE Quot(DerivScale * n, dn)

\* PchipInterpolator._find_derivatives(x, y): the derivative at each knot,
\* times DerivScale.  Two knots: the secant.  Interior knots: 0 where the
\* adjacent secants differ in sign or one is 0, else their weighted harmonic
\* mean.  End knots: EdgeCase.
FindDerivatives(x, y) ==
    LET n == Len(x)
        h(k) == x[k + 1] - x[k]
        a(k) == y[k + 1] - y[k]
    IN  IF n = 2 THEN LET m == Quot(DerivScale * a(1), h(1)) IN <<m, m>>
        ELSE AsList([k \in 1..n |->
               IF k = 1 THEN EdgeCase(h(1), h(2), a(1), a(2))
               ELSE IF k = n
                    THEN EdgeCase(h(n - 1), h(n - 2), a(n - 1), a(n - 2))
               ELSE LET w1 == 2 * h(k) + h(k - 1)
                        w2 == h(k) + 2 * h(k - 1)
                    IN  IF Sign(a(k - 1)) # Sign(a(k)) \/ a(k - 1) = 0
                           \/ a(k) = 0
                        THEN 0
                        ELSE Quot(DerivScale * (w1 + w2) * a(k - 1) * a(k),
                                  w1 * h(k - 1) * a(k) + w2 * h(k) * a(k - 1))])

\* The interval of the knots x that holds the query value xn/den.
Interval(x, xn, den) ==
    LET below == {k \in 1..(Len(x) - 1) : x[k] * den <= xn}
    IN  IF below = {} THEN 1 ELSE CHOOSE k \in below : \A j \in below : j <= k

\* The Hermite cubic of interval k at xn/den, rounded down to the grid:
\* h00(t)*y[k] + h10(t)*h*d[k] + h01(t)*y[k+1] + h11(t)*h*d[k+1], t = s/h.
Hermite(x, y, d, xn, den) ==
    LET k  == Interval(x, xn, den)
        hk == x[k + 1] - x[k]
        S  == xn - x[k] * den
        H  == hk * den
        h00 == 2 * S * S * S - 3 * S * S * H + H * H * H
        h10 == S * S * S - 2 * S * S * H + S * H * H
        h01 == 3 * S * S * H - 2 * S * S * S
        h11 == S * S * S - S * S * H
    IN  (h00 * y[k] * DerivScale + h10 * hk * d[k]
         + h01 * y[k + 1] * DerivScale + h11 * hk * d[k + 1])
        \div (H * H * H * DerivScale)

\* Line 86: pchip_interpolate(xi, yi, x, axis=1), yi the rows of the present
\* channels.  PchipInterpolator raises ValueError for fewer than 2 knots and
\* for knots that are not strictly increasing.
pchip_interpolate(xi, yi, x) ==
    IF Len(xi) < 2 \/ \E k \in 1..(Len(xi) - 1) : xi[k + 1] <= xi[k]
    THEN Raise("ValueError")
    ELSE Ok(AsList([r \in 1..Len(yi) |->
              LET d == FindDerivatives(xi, yi[r])
              IN  AsList([j \in 1..Len(x.n) |->
                            Hermite(xi, yi[r], d, x.n[j], x.den)])]))

\* Line 81: yi, the rows of the channels that are present.
Rows(data) ==
    LET row(key) == IF Truthy(data[key]) THEN <<data[key].v>> ELSE <<>>
    IN  row("lat") \o row("lon") \o row("ele") \o row("tstamp")

\* Line 85 as gpx_interpolate calls it: the query values.
Query(data, distance, num) ==
    LET xi == CumSum(gpx_calculate_distance(data, TRUE).val)
    IN  Linspace(xi[1], xi[Len(xi)], NumPoints(xi[Len(xi)], distance, num))

\* Lines 68-94.
gpx_interpolate(data, distance, num) ==
    IF \A k \in 1..4 : ~Truthy(data[Keys[k]]) THEN Ok(data)
    ELSE LET nodup == gpx_remove_duplicates(data)
         IN  IF ~IsOk(nodup) THEN Raise(nodup.err)
             ELSE LET _gpx_data == nodup.val
                      _gpx_dist == gpx_calculate_distance(_gpx_data, TRUE)
                  IN  IF ~IsOk(_gpx_dist) THEN Raise(_gpx_dist.err)
                      ELSE LET y == pchip_interpolate(
                                        CumSum(_gpx_dist.val), Rows(_gpx_data),
                                        Query(_gpx_data, distance, num))
                           IN  IF ~IsOk(y) THEN Raise(y.err)
                               ELSE Ok(Track(
                                   List(y.val[1]),
                                   List(y.val[2]),
                                   IF Truthy(data.ele)
                                   THEN List(y.val[3]) ELSE NoneCh,
                                   IF Truthy(data.tstamp)
                                   THEN List(y.val[Len(y.val)]) ELSE NoneCh,
                                   data.tzinfo))

----------------------------------------------------------------------------
(* The tracks the functions are called on *)

LonValues == {0, 1}

\* All sequences of length n over the set S.
SeqsOf(S, n) == [1..n -> S]

\* An elevation channel of n points: None, [], all equal, or up and down.
EleProfiles == {"none", "empty", "flat", "zigzag"}

EleChannel(profile, n) ==
    CASE profile = "none"   -> NoneCh
      [] profile = "empty"  -> List(<<>>)
      [] profile = "flat"   -> List([k \in 1..n |-> MaxEle])
      [] profile = "zigzag" -> List([k \in 1..n |-> (k - 1) % (MaxEle + 1)])

\* A timestamp channel of n points: None, [], or EPS apart.
TstampProfiles == {"none", "empty", "ramp"}

TstampChannel(profile, n) ==
    CASE profile = "none"  -> NoneCh
      [] profile = "empty" -> List(<<>>)
      [] profile = "ramp"  -> List([k \in 1..n |-> (k - 1) * EPS])

TzOf(tstamp) == IF Truthy(tstamp) THEN "utc" ELSE "none"

\* Every position sequence, with the elevation and timestamp profiles.
PositionTracks ==
    UNION {
      { LET ts == TstampChannel(tp, n)
        IN  Track(List(lat), List(lon), EleChannel(ep, n), ts, TzOf(ts)) :
          lat \in SeqsOf(0..MaxCoord, n), lon \in SeqsOf(LonValues, n),
          ep \in EleProfiles, tp \in TstampProfiles }
      : n \in 0..MaxLen }

\* The latitudes of n points that stand still, move at every step, or
\* move at every second step.
LatProfiles == {"still", "moving", "pause"}

LatChannel(profile, n) ==
    CASE profile = "still"  -> [k \in 1..n |-> 0]
      [] profile = "moving" -> [k \in 1..n |-> k % 2]
      [] profile = "pause"  -> [k \in 1..n |-> (k \div 2) % 2]

\* Every timestamp sequence, over the latitude profiles.
TimedTracks ==
    UNION {
      { Track(List(LatChannel(lp, n)), List([k \in 1..n |-> 0]),
              EleChannel(ep, n), List(ts), "utc") :
          lp \in LatProfiles, ts \in SeqsOf(0..MaxT, n),
          ep \in {"none", "zigzag"} }
      : n \in 1..MaxLen }

NoCall == [fn |-> "", arg |-> <<>>, use_ele |-> FALSE, depth |-> 0,
           distance |-> 0, num |-> NoneNum]

NoQuery == [n |-> <<>>, den |-> 1]

MainIdle ==
    /\ args = <<>>
    /\ idx = 0
    /\ pc = ""
    /\ gpx_data_interp = <<>>
    /\ gpx_dist = <<>>
    /\ written = <<>>
    /\ exit_status = ""

InitFn ==
    /\ gpx_data \in PositionTracks \cup TimedTracks
    /\ call = NoCall
    /\ ret = Ok(<<>>)
    /\ x_query = NoQuery
    /\ MainIdle

CallDistance ==
    /\ call.fn = ""
    /\ \E use_ele \in BOOLEAN :
         /\ call' = [NoCall EXCEPT !.fn = "gpx_calculate_distance", !.arg = gpx_data,
                            !.use_ele = use_ele, !.depth = 1]
         /\ ret' = gpx_calculate_distance(gpx_data, use_ele)
    /\ UNCHANGED <<gpx_data, x_query, mainVars>>

CallRemoveDuplicates ==
    /\ call.fn = ""
    /\ call' = [NoCall EXCEPT !.fn = "gpx_remove_duplicates", !.arg = gpx_data,
                            !.use_ele = FALSE, !.depth = 1]
    /\ ret' = gpx_remove_duplicates(gpx_data)
    /\ UNCHANGED <<gpx_data, x_query, mainVars>>

\* gpx_remove_duplicates called on what gpx_remove_duplicates returned.
CallRemoveDuplicatesAgain ==
    /\ call.fn = "gpx_remove_duplicates"
    /\ call.depth = 1
    /\ IsOk(ret)
    /\ call' = [call EXCEPT !.arg = ret.val, !.depth = 2]
    /\ ret' = gpx_remove_duplicates(ret.val)
    /\ UNCHANGED <<gpx_data, x_query, mainVars>>

CallSpeed ==
    /\ call.fn = ""
    /\ call' = [NoCall EXCEPT !.fn = "gpx_calculate_speed", !.arg = gpx_data,
                            !.use_ele = TRUE, !.depth = 1]
    /\ ret' = gpx_calculate_speed(gpx_data)
    /\ UNCHANGED <<gpx_data, x_query, mainVars>>

NextFn ==
    \/ CallDistance
    \/ CallRemoveDuplicates
    \/ CallRemoveDuplicatesAgain
    \/ CallSpeed

SpecFn == InitFn /\ [][NextFn]_vars

----------------------------------------------------------------------------
(* Claims about the track functions, checked under SpecFn *)

RECURSIVE RetainedFrom(_, _, _, _)
\* The 1-based indices from k on that are kept when a point is dropped
\* exactly if its lat/lon distance from the last retained point is zero.
RetainedFrom(lat, lon, k, last) ==
    IF k > Len(lat) THEN <<>>
    ELSE IF dist_latlon(lat[last], lon[last], lat[k], lon[k]) = 0
         THEN RetainedFrom(lat, lon, k + 1, last)
         ELSE <<k>> \o RetainedFrom(lat, lon, k + 1, k)

Retained(data) ==
    IF Len(data.lat.v) = 0 THEN <<>>
    ELSE <<1>> \o RetainedFrom(data.lat.v, data.lon.v, 2, 1)

Pick(s, indices) == [j \in 1..Len(indices) |-> s[indices[j]]]

\* C5: gpx_remove_duplicates applied to its own result returns that result,
\* in all four channels and the time-zone descriptor.
C5_DuplicateIdempotence ==
    (call.fn = "gpx_remove_duplicates" /\ call.depth = 2)
        => ret = Ok(call.arg)

\* C6: gpx_remove_duplicates returns the points of the input that are not at
\* zero lat/lon distance from the previous retained point, point 0 first;
\* every present channel is selected with the same indices, an absent channel
\* stays absent, and no two consecutive points of the result are at zero
\* distance.
C6_DuplicatesDropped ==
    (call.fn = "gpx_remove_duplicates" /\ call.depth = 1) =>
        /\ IsOk(ret)
        /\ ret.val.tzinfo = call.arg.tzinfo
        /\ \A i \in 1..4 :
             LET key == Keys[i] IN
               IF Truthy(call.arg[key])
               THEN ret.val[key] = List(Pick(call.arg[key].v, Retained(call.arg)))
               ELSE ~Truthy(ret.val[key])
        /\ Truthy(call.arg.lat) =>
             /\ ret.val.lat.v[1] = call.arg.lat.v[1]
             /\ ret.val.lon.v[1] = call.arg.lon.v[1]
             /\ \A k \in 1..(Len(ret.val.lat.v) - 1) :
                  dist_latlon(ret.val.lat.v[k], ret.val.lon.v[k],
                              ret.val.lat.v[k + 1], ret.val.lon.v[k + 1]) # 0

\* A track with elevations in which a duplicate was dropped between two
\* retained points, whose [] timestamp channel came back absent.
C6_Witness ==
    /\ call.fn = "gpx_remove_duplicates"
    /\ call.depth = 1
    /\ IsOk(ret)
    /\ Len(call.arg.lat.v) = 3
    /\ Len(ret.val.lat.v) = 2
    /\ call.arg.lat.v[2] = call.arg.lat.v[1]
    /\ call.arg.lon.v[2] = call.arg.lon.v[1]
    /\ Truthy(call.arg.ele)
    /\ call.arg.ele.v[2] # call.arg.ele.v[1]
    /\ call.arg.tstamp = List(<<>>)
    /\ ret.val.tstamp = NoneCh

\* C7: gpx_calculate_distance returns as many elements as the track has
\* points, the first 0 and none negative, so the cumulative distance starts
\* at 0 and never decreases.
C7_DistanceNonNegative ==
    (call.fn = "gpx_calculate_distance") =>
        /\ IsOk(ret)
        /\ Len(ret.val) = Len(call.arg.lat.v)
        /\ Len(ret.val) > 0 => ret.val[1] = 0
        /\ \A k \in 1..Len(ret.val) : ret.val[k] >= 0
        /\ LET xi == CumSum(ret.val)
           IN  /\ Len(xi) > 0 => xi[1] = 0
               /\ \A k \in 1..(Len(xi) - 1) : xi[k] <= xi[k + 1]

\* A track with a duplicate point and falling elevation, measured with
\* elevation.
C7_Witness ==
    /\ call.fn = "gpx_calculate_distance"
    /\ call.use_ele
    /\ Truthy(call.arg.ele)
    /\ Len(call.arg.lat.v) = 3
    /\ call.arg.lat.v[3] = call.arg.lat.v[2]
    /\ call.arg.lon.v[3] = call.arg.lon.v[2]
    /\ call.arg.ele.v[3] < call.arg.ele.v[2]
    /\ ret.val[2] > 0
    /\ ret.val[3] > 0

\* C8: for a track with a timestamp channel gpx_calculate_speed returns as
\* many elements as the track has points, the first 0, every one finite and
\* not negative, and 0 wherever the timestamp delta is below EPS.
C8_SpeedFiniteNonNegative ==
    (call.fn = "gpx_calculate_speed" /\ Truthy(call.arg.tstamp)) =>
        /\ IsOk(ret)
        /\ Len(ret.val) = Len(call.arg.lat.v)
        /\ ret.val[1] = Num(0)
        /\ \A k \in 1..Len(ret.val) :
             /\ ret.val[k].kind = "num"
             /\ ret.val[k].x >= 0
             /\ (k > 1 /\ call.arg.tstamp.v[k] - call.arg.tstamp.v[k - 1] < EPS)
                    => ret.val[k].x = 0

\* A moving track with a negative and a positive-but-below-EPS delta.
C8_Witness ==
    /\ call.fn = "gpx_calculate_speed"
    /\ IsOk(ret)
    /\ Len(ret.val) = 3
    /\ call.arg.lat.v[2] # call.arg.lat.v[1]
    /\ call.arg.lat.v[3] # call.arg.lat.v[2]
    /\ call.arg.tstamp.v[2] - call.arg.tstamp.v[1] < 0
    /\ call.arg.tstamp.v[3] - call.arg.tstamp.v[2] = 1

----------------------------------------------------------------------------
(* gpx_interpolate, called with num or with distance alone *)

InterpTracks ==
    UNION {
      { LET ts == TstampChannel(tp, n)
        IN  Track(List(lat), List(lon), EleChannel(ep, n), ts, TzOf(ts)) :
          lat \in SeqsOf(0..MaxCoord, n), lon \in SeqsOf(LonValues, n),
          ep \in {"none", "zigzag"}, tp \in {"none", "ramp"} }
      : n \in 0..MaxLen }

InitInterp ==
    /\ gpx_data \in InterpTracks
    /\ call = NoCall
    /\ ret = Ok(<<>>)
    /\ x_query = NoQuery
    /\ MainIdle

\* x as line 85 leaves it, when the call gets that far.
QueryOf(data, distance, num) ==
    LET nodup == gpx_remove_duplicates(data)
    IN  IF (\A k \in 1..4 : ~Truthy(data[Keys[k]])) \/ ~IsOk(nodup)
        THEN NoQuery
        ELSE Query(nodup.val, distance, num)

\* gpx_interpolate(gpx_data, num=k): distance keeps its default.
CallInterpolateNum ==
    /\ call.fn = ""
    /\ \E k \in 0..MaxNum :
         /\ call' = [NoCall EXCEPT !.fn = "gpx_interpolate", !.arg = gpx_data,
                                   !.distance = 1, !.num = SomeNum(k)]
         /\ ret' = gpx_interpolate(gpx_data, 1, SomeNum(k))
         /\ x_query' = QueryOf(gpx_data, 1, SomeNum(k))
    /\ UNCHANGED <<gpx_data, mainVars>>

\* gpx_interpolate(gpx_data, distance=d): num is None.
CallInterpolateDistance ==
    /\ call.fn = ""
    /\ \E d \in 1..MaxStep :
         /\ call' = [NoCall EXCEPT !.fn = "gpx_interpolate", !.arg = gpx_data,
                                   !.distance = d]
         /\ ret' = gpx_interpolate(gpx_data, d, NoneNum)
         /\ x_query' = QueryOf(gpx_data, d, NoneNum)
    /\ UNCHANGED <<gpx_data, mainVars>>

NextInterp ==
    \/ CallInterpolateNum
    \/ CallInterpolateDistance

SpecInterp == InitInterp /\ [][NextInterp]_vars

\* The channels of an interpolated track have k elements where the input
\* had the channel, and are None where it had not.
HasCount(out, in, k) ==
    /\ out.lat.some /\ Len(out.lat.v) = k
    /\ out.lon.some /\ Len(out.lon.v) = k
    /\ IF Truthy(in.ele) THEN out.ele.some /\ Len(out.ele.v) = k
       ELSE out.ele = NoneCh
    /\ IF Truthy(in.tstamp) THEN out.tstamp.some /\ Len(out.tstamp.v) = k
       ELSE out.tstamp = NoneCh

\* The arc-length axis the interpolator is given for a track (line 80) has at
\* least 2 values and rises strictly.
Interpolable(data) ==
    LET nodup == gpx_remove_duplicates(data).val
        xi == CumSum(gpx_calculate_distance(nodup, TRUE).val)
    IN  /\ Len(xi) >= 2
        /\ \A j \in 1..(Len(xi) - 1) : xi[j] < xi[j + 1]

\* C1 as stated: for any track with at least 2 points and any k >= 2,
\* gpx_interpolate(track, num=k) returns a track whose lat, lon and present
\* channels have exactly k elements.
C1_CountAnyTrack ==
    (call.fn = "gpx_interpolate" /\ call.num.some /\ call.num.v >= 2
       /\ Len(call.arg.lat.v) >= 2)
        => (IsOk(ret) /\ HasCount(ret.val, call.arg, call.num.v))

\* C1 as amended: for any track of which at least 2 points remain after
\* duplicate removal, with strictly increasing cumulative distance, and any
\* k >= 2, gpx_interpolate(track, num=k) returns a track whose lat, lon and
\* present channels have exactly k elements.
C1_CountDistinctTrack ==
    (call.fn = "gpx_interpolate" /\ call.num.some /\ call.num.v >= 2
       /\ Len(call.arg.lat.v) >= 2 /\ Interpolable(call.arg))
        => (IsOk(ret) /\ HasCount(ret.val, call.arg, call.num.v))

\* A track with a duplicate point, elevation and no timestamps, interpolated
\* to more points than it has.
C1_Witness ==
    /\ call.fn = "gpx_interpolate"
    /\ call.num = SomeNum(MaxNum)
    /\ Len(call.arg.lat.v) = 3
    /\ Len(Retained(call.arg)) = 2
    /\ Truthy(call.arg.ele)
    /\ ~Truthy(call.arg.tstamp)
    /\ IsOk(ret)
    /\ Len(ret.val.ele.v) = MaxNum

\* C2: for a valid track of n >= 2 points (one the interpolator accepts: at
\* least 2 points left after duplicate removal, cumulative distance strictly
\* increasing), gpx_interpolate(track, num=n) returns a track whose first and
\* last (lat, lon) are the input's first and last (lat, lon); the first and
\* last query values are the first and last cumulative arc lengths.
C2_EndpointsPreserved ==
    LET n == Len(call.arg.lat.v) IN
    (call.fn = "gpx_interpolate" /\ call.num.some /\ n >= 2
       /\ call.num.v = n /\ Interpolable(call.arg))
        => /\ IsOk(ret)
           /\ ret.val.lat.v[1] = call.arg.lat.v[1]
           /\ ret.val.lon.v[1] = call.arg.lon.v[1]
           /\ ret.val.lat.v[n] = call.arg.lat.v[n]
           /\ ret.val.lon.v[n] = call.arg.lon.v[n]
           /\ x_query.n[1] = 0
           /\ x_query.n[n] = x_query.den
                * SumSeq(gpx_calculate_distance(
                             gpx_remove_duplicates(call.arg).val, TRUE).val)

\* A track of 3 points that ends on a duplicate and whose ends differ in
\* latitude and in longitude.
C2_Witness ==
    /\ call.fn = "gpx_interpolate"
    /\ call.num = SomeNum(3)
    /\ Len(call.arg.lat.v) = 3
    /\ Len(Retained(call.arg)) = 2
    /\ call.arg.lat.v[3] = call.arg.lat.v[2]
    /\ call.arg.lon.v[3] = call.arg.lon.v[2]
    /\ call.arg.lat.v[3] # call.arg.lat.v[1]
    /\ call.arg.lon.v[3] # call.arg.lon.v[1]
    /\ IsOk(ret)

\* C3: with a distance step d and no num, the arc-length gap between every
\* two consecutive query values is d.
C3_SpacingIsDistance ==
    (call.fn = "gpx_interpolate" /\ ~call.num.some /\ IsOk(ret))
        => \A j \in 1..(Len(x_query.n) - 1) :
             x_query.n[j + 1] - x_query.n[j] = call.distance * x_query.den

----------------------------------------------------------------------------
(* gpx_read, gpx_write and main *)

\* A trackpoint of a GPX file: elevation and time may be missing.
FilePoint(lat, lon, ele, time) ==
    [lat |-> lat, lon |-> lon, ele |-> ele, time |-> time]

\* The times of the n points of a file: missing, rising or falling.
TimeProfiles == {"none", "up", "down"}

FileTime(profile, k, n) ==
    CASE profile = "none" -> NoneNum
      [] profile = "up"   -> SomeNum(k * EPS)
      [] profile = "down" -> SomeNum((n - k + 1) * EPS)

\* The contents a GPX file can have: every latitude sequence, each with the
\* three time profiles and no elevation.
FileContents ==
    UNION {
      { [k \in 1..n |-> FilePoint(lat[k], 0, NoneNum, FileTime(tp, k, n))] :
          lat \in SeqsOf(0..1, n), tp \in TimeProfiles }
      : n \in 0..MaxLen }

\* Lines 161-208: missing elevation and time become 0.0, tzinfo is that of
\* the last point's time (utc when the time is missing, None without points).
gpx_read(points) ==
    LET n == Len(points)
        opt(o) == IF o.some THEN o.v ELSE 0
    IN  Track(List([k \in 1..n |-> points[k].lat]),
              List([k \in 1..n |-> points[k].lon]),
              List([k \in 1..n |-> opt(points[k].ele)]),
              List([k \in 1..n |-> opt(points[k].time)]),
              IF n = 0 THEN "none" ELSE "utc")

Empty == <<>>

ArgSets ==
    [gpx_files    : UNION {SeqsOf(BOOLEAN, n) : n \in 1..MaxFiles},
     distance     : {1},
     num          : {NoneNum},
     intervaltime : {NoneNum, SomeNum(EPS)},
     velocity     : {0, 1},
     speed        : BOOLEAN,
     begintime    : {NoneNum, SomeNum(10)}]

\* The state after parse_args.  args.gpx_files[j] says whether the j-th file
\* name ends with '_interpolated.gpx'.
Init ==
    /\ args \in ArgSets
    /\ idx = 1
    /\ pc = "for"
    /\ gpx_data = Empty
    /\ gpx_data_interp = Empty
    /\ gpx_dist = Empty
    /\ written = <<>>
    /\ exit_status = "running"
    /\ call = NoCall
    /\ ret = Ok(<<>>)
    /\ x_query = NoQuery

fnVars == <<call, ret, x_query>>

\* Line 266: the loop is over.
Finish ==
    /\ pc = "for"
    /\ idx > Len(args.gpx_files)
    /\ pc' = "end"
    /\ exit_status' = "done"
    /\ UNCHANGED <<gpx_data, gpx_data_interp, gpx_dist, written, idx, args,
                   fnVars>>

\* Line 267: a file whose name ends with '_interpolated.gpx' is passed over.
SkipFile ==
    /\ pc = "for"
    /\ idx <= Len(args.gpx_files)
    /\ args.gpx_files[idx]
    /\ idx' = idx + 1
    /\ UNCHANGED <<pc, gpx_data, gpx_data_interp, gpx_dist, written,
                   exit_status, args, fnVars>>

\* Line 268: gpx_read returns the track of the file, or open/parse raises
\* and, nothing catching it, the process ends.
ReadFile ==
    /\ pc = "for"
    /\ idx <= Len(args.gpx_files)
    /\ ~args.gpx_files[idx]
    /\ \/ /\ \E points \in FileContents : gpx_data' = gpx_read(points)
          /\ pc' = "interpolate"
          /\ UNCHANGED exit_status
       \/ /\ pc' = "end"
          /\ exit_status' = "exception in gpx_read"
          /\ UNCHANGED gpx_data
    /\ UNCHANGED <<idx, gpx_data_interp, gpx_dist, written, args, fnVars>>

\* Lines 272-279: duplicate removal, interpolation, distance.  len(None) at
\* line 274 and an exception of gpx_interpolate end the process.
InterpolateFile ==
    /\ pc = "interpolate"
    /\ LET gpx_data_nodup == gpx_remove_duplicates(gpx_data)
           interp == gpx_interpolate(gpx_data_nodup.val, args.distance,
                                     args.num)
       IN  IF ~gpx_data_nodup.val.lat.some \/ ~IsOk(interp)
           THEN /\ pc' = "end"
                /\ exit_status' = "exception in interpolation"
                /\ UNCHANGED <<gpx_data_interp, gpx_dist>>
           ELSE /\ gpx_data_interp' = interp.val
                /\ gpx_dist' = gpx_calculate_distance(gpx_data, TRUE).val
                /\ pc' = "retime"
                /\ UNCHANGED exit_status
    /\ UNCHANGED <<idx, gpx_data, written, args, fnVars>>

\* Lines 286-287: every timestamp moved by deltatime.
ShiftBegin(tstamp, begintime) ==
    LET deltatime == begintime - tstamp[1]
    IN  [k \in 1..Len(tstamp) |-> tstamp[k] + deltatime]

RECURSIVE AccumulateFrom(_, _, _, _)
AccumulateFrom(tstamp, step, k, prev) ==
    IF k > Len(tstamp) THEN <<>>
    ELSE <<prev + step[k]>> \o AccumulateFrom(tstamp, step, k + 1, prev + step[k])

\* The loop reading the timestamps as they were before it started.
AccumulateFromOld(tstamp, step) ==
    [k \in 1..Len(tstamp) |->
       IF k = 1 THEN tstamp[1] ELSE tstamp[k - 1] + step[k]]

\* Lines 292-293 and 297-298: tstamp[i+1] = tstamp[i] + step[i+1] in place,
\* each step from the value the one before has just written.
Accumulate(tstamp, step) ==
    IF Len(tstamp) = 0 THEN tstamp
    ELSE <<tstamp[1]>> \o AccumulateFrom(tstamp, step, 2, tstamp[1])

\* Lines 281-298: the three adjustments of gpx_data['tstamp'], in order.
Retimed(tstamp, dist, a) ==
    LET t1 == IF a.begintime.some THEN ShiftBegin(tstamp, a.begintime.v)
              ELSE tstamp
        t2 == IF a.velocity > 0
              THEN Accumulate(t1, [k \in 1..Len(dist) |->
                                     Quot(dist[k], a.velocity)])
              ELSE t1
        t3 == IF a.intervaltime.some /\ a.intervaltime.v > 0
              THEN Accumulate(t2, [k \in 1..Len(t2) |-> a.intervaltime.v])
              ELSE t2
    IN  t3

RetimeFile ==
    /\ pc = "retime"
    /\ gpx_data' = [gpx_data EXCEPT
                      !.tstamp = List(Retimed(gpx_data.tstamp.v, gpx_dist, args))]
    /\ pc' = "write"
    /\ UNCHANGED <<idx, gpx_data_interp, gpx_dist, written, exit_status, args,
                   fnVars>>

\* Lines 211-247: what gpx_write puts in the file.  With write_speed a
\* missing tstamp raises ValueError.
gpx_write(data, write_speed) ==
    IF write_speed /\ ~Truthy(data.tstamp) THEN Raise("ValueError")
    ELSE Ok([version |-> IF write_speed THEN "1.0" ELSE "1.1",
             points  |-> Len(data.lat.v),
             speed   |-> IF write_speed
                         THEN gpx_calculate_speed(data).val ELSE <<>>])

\* Lines 241-245 with the mistake of going on after a failed save.
WriteFileAndGoOn ==
    /\ pc = "write"
    /\ LET out == gpx_write(gpx_data_interp, args.speed)
       IN  \/ /\ IsOk(out)
              /\ written' = Append(written,
                     [file |-> idx, version |-> out.val.version])
           \/ UNCHANGED written
    /\ idx' = idx + 1
    /\ pc' = "for"
    /\ gpx_data' = Empty
    /\ gpx_data_interp' = Empty
    /\ gpx_dist' = Empty
    /\ UNCHANGED <<exit_status, args, fnVars>>

\* Lines 301-320: the summary, then gpx_write with gpx_data_interp.  The
\* file is written and the loop goes on, or open/write fails and gpx_write
\* ends the process with exit('ERROR Failed to save ...').  The locals are
\* dead once the file is written; the model clears them.
WriteFile ==
    /\ pc = "write"
    /\ LET out == gpx_write(gpx_data_interp, args.speed)
       IN  \/ /\ IsOk(out)
              /\ written' = Append(written,
                     [file |-> idx, version |-> out.val.version])
              /\ idx' = idx + 1
              /\ pc' = "for"
              /\ gpx_data' = Empty
              /\ gpx_data_interp' = Empty
              /\ gpx_dist' = Empty
              /\ UNCHANGED exit_status
           \/ /\ pc' = "end"
              /\ exit_status' = IF IsOk(out) THEN "exit: failed to save"
                                ELSE "exception in gpx_write"
              /\ UNCHANGED <<written, idx, gpx_data, gpx_data_interp, gpx_dist>>
    /\ UNCHANGED <<args, fnVars>>

Next ==
    \/ Finish
    \/ SkipFile
    \/ ReadFile
    \/ InterpolateFile
    \/ RetimeFile
    \/ WriteFile

Spec == Init /\ [][Next]_vars

----------------------------------------------------------------------------
(* Claims about main, checked under Spec *)

NonDecreasing(t) == \A k \in 1..(Len(t) - 1) : t[k] <= t[k + 1]

IntervalRequested == args.intervaltime.some /\ args.intervaltime.v > 0

VelocityRequested == args.velocity > 0

\* C4: the timestamps of the track handed to gpx_write are the retimed ones:
\* a requested begin time is the first timestamp, with interval dt
\* consecutive timestamps differ by dt, with velocity v (and no interval) by
\* distance(i-1,i)/v.
C4_WrittenTrackIsRetimed ==
    (pc = "write") =>
        LET t == gpx_data_interp.tstamp.v
            d == gpx_calculate_distance(gpx_data_interp, TRUE).val
        IN  /\ args.begintime.some => t[1] = args.begintime.v
            /\ IntervalRequested =>
                 \A k \in 1..(Len(t) - 1) : t[k + 1] - t[k] = args.intervaltime.v
            /\ (VelocityRequested /\ ~IntervalRequested) =>
                 \A k \in 1..(Len(t) - 1) :
                   t[k + 1] - t[k] = Quot(d[k + 1], args.velocity)

\* C10 as stated: after the retiming steps the timestamps of the retimed
\* track never decrease, whatever the raw track and the adjustments.
C10_RetimedNonDecreasing ==
    (pc = "write") => NonDecreasing(gpx_data.tstamp.v)

\* C10 as amended: after the retiming steps the timestamps of the retimed
\* track never decrease when constant-velocity or constant-interval retiming
\* was requested (velocity > 0 or intervaltime > 0).
C10_RetimedNonDecreasingWhenRegenerated ==
    (pc = "write" /\ (VelocityRequested \/ IntervalRequested))
        => NonDecreasing(gpx_data.tstamp.v)

\* A file whose times fall (the interpolated timestamps still do), retimed
\* with a begin time and a velocity only.
C10_Witness ==
    /\ pc = "write"
    /\ VelocityRequested
    /\ ~IntervalRequested
    /\ args.begintime.some
    /\ \E k \in 1..(Len(gpx_data_interp.tstamp.v) - 1) :
         gpx_data_interp.tstamp.v[k + 1] < gpx_data_interp.tstamp.v[k]
    /\ gpx_data.tstamp.v[1] = args.begintime.v
    /\ gpx_data.tstamp.v[Len(gpx_data.tstamp.v)] > args.begintime.v

ReadOrWriteFailed ==
    exit_status \in {"exception in gpx_read", "exit: failed to save"}

WrittenFiles == {written[k].file : k \in 1..Len(written)}

\* C9 as stated: after a failure reading or writing one file, every later
\* file that does not end in '_interpolated.gpx' is still written.
C9_BatchContinues ==
    (pc = "end" /\ ReadOrWriteFailed) =>
        \A j \in (idx + 1)..Len(args.gpx_files) :
            ~args.gpx_files[j] => j \in WrittenFiles

\* C9 as amended: a failure reading or writing one file ends the run there:
\* the files before it that do not end in '_interpolated.gpx' have been
\* written, the failing file and the files after it have not, and no step
\* follows.
C9_FailureEndsRun ==
    ReadOrWriteFailed =>
        /\ pc = "end"
        /\ ~ENABLED Next
        /\ WrittenFiles = {j \in 1..(idx - 1) : ~args.gpx_files[j]}

\* The save of the second file failed after the first was written.
C9_Witness ==
    /\ exit_status = "exit: failed to save"
    /\ idx = 2
    /\ Len(written) = 1

====
